---- MODULE Spec2Model ----
(***************************************************************************)
(* Model of tokio-postgres/src/statement.rs.                               *)
(*                                                                         *)
(* Part 1 (Spec): the life of Statement handles.  A Statement is an        *)
(* Arc<StatementInner>; StatementInner keeps a Weak<InnerClient>.  The     *)
(* last release of the Arc runs StatementInner::drop, which upgrades the   *)
(* Weak, encodes Close('S', name) + Sync in the client's shared buffer     *)
(* and sends it, discarding the result.                                    *)
(*                                                                         *)
(* Part 2 (ColumnSpec): Column::precision, Column::scale and               *)
(* Column::type_modifier_to_second_size as operators over i32 / u32.       *)
(***************************************************************************)
EXTENDS Integers, Sequences, FiniteSets, TLC

\* ------------------------------------------------------------------------
\* Bounds of the model
\* ------------------------------------------------------------------------
NumStatements == 2      \* statements prepared on the connection
MaxClones == 1          \* clones taken of one statement handle
MaxOther == 1           \* other requests queued by the client
EdgeWidth == 4          \* modifiers enumerated on each side of an edge value

Statements == 1..NumStatements

VARIABLES
    owner,        \* the Client still holds its Arc<InnerClient>
    rx_open,      \* the Connection still holds the receiving half of the channel
    conn_strong,  \* strong count of Arc<InnerClient>
    conn_weak,    \* number of Weak<InnerClient> held by StatementInner values
    buffer,       \* InnerClient's shared scratch buffer: a sequence of frames
    buf_lock,     \* holder of the buffer's lock: 0 free, s a statement, -1 other
    queue,        \* messages accepted by the channel, in order
    pc,           \* per statement: position of its handle / of its drop
    strong,       \* per statement: strong count of Arc<StatementInner>
    cloned,       \* per statement: clones taken so far
    client,       \* per statement: the binding `client` of drop (line 20)
    buf,          \* per statement: the binding `buf` of drop (line 21)
    attempts,     \* per statement: calls of client.send made by its drop
    borrows,      \* per statement: calls of client.with_buf made by its drop
    send_result,  \* per statement: the Result that `let _ =` discards
    other_pc,     \* the client's other requester: "idle" or "encoded"
    other_sent,   \* other requests made so far
    col_type,     \* Column.type_
    col_mod,      \* Column.type_modifier
    checks,       \* the build's overflow-checks setting
    col_pc,       \* "new", "precision" or "scale": the accessor last called
    result,       \* what that accessor returned
    overflowed    \* an i32 computation of that call left the i32 range

stmt_vars == <<owner, rx_open, conn_strong, conn_weak, buffer, buf_lock, queue,
               pc, strong, cloned, client, buf, attempts, borrows, send_result,
               other_pc, other_sent>>
col_vars == <<col_type, col_mod, checks, col_pc, result, overflowed>>
vars == <<owner, rx_open, conn_strong, conn_weak, buffer, buf_lock, queue,
          pc, strong, cloned, client, buf, attempts, borrows, send_result,
          other_pc, other_sent, col_type, col_mod, checks, col_pc, result,
          overflowed>>

\* ------------------------------------------------------------------------
\* Part 1: Statement handles
\* ------------------------------------------------------------------------

\* StatementInner.name: the name the statement was prepared under.
Name(s) == <<"s", s>>

\* frontend::close(variant, name, buf) appends one Close frame.
frontend_close(variant, name, b) == Append(b, <<"Close", variant, name>>)

\* frontend::sync(buf) appends one Sync frame.
frontend_sync(b) == Append(b, <<"Sync">>)

\* RequestMessages::Single(FrontendMessage::Raw(buf))
Single(raw) == [kind |-> "Single", raw |-> raw]

CloseOtherKind(name, b) == frontend_close("P", name, b)
\* line 22: frontend::close(b'S', &self.name, buf).unwrap()
CloseStatement(name, b) == frontend_close("S", name, b)

EveryReference(old) == TRUE
\* Arc<StatementInner>: the inner value is dropped by the release that finds
\* the strong count at 1.
LastReference(old) == old = 1

CloneStrong(st, wk) == <<st + 1, wk>>
\* line 45: Arc::downgrade(inner) leaves the strong count, adds one Weak.
downgrade(st, wk) == <<st, wk + 1>>

UpgradeAlways(count) == "Some"
\* line 20: Weak::upgrade gives Some exactly when the strong count is not 0.
upgrade(count) == IF count > 0 THEN "Some" ELSE "None"

UnwrapSendResult(res) == IF res = "Err" THEN "panicked" ELSE "end"
\* line 26: `let _ = client.send(..)`: the result is discarded either way.
DiscardSendResult(res) == "end"

\* Statement::new (lines 38-50): needs &Arc<InnerClient>, so the Client lives.
New(s) ==
    /\ pc[s] = "absent"
    /\ owner
    /\ pc' = [pc EXCEPT ![s] = "live"]
    /\ strong' = [strong EXCEPT ![s] = 1]
    /\ conn_strong' = downgrade(conn_strong, conn_weak)[1]
    /\ conn_weak' = downgrade(conn_strong, conn_weak)[2]
    /\ UNCHANGED <<owner, rx_open, buffer, buf_lock, queue, cloned, client, buf,
                   attempts, borrows, send_result, other_pc, other_sent>>
    /\ UNCHANGED col_vars

\* #[derive(Clone)] on Statement(Arc<StatementInner>) (lines 34-35).
Clone(s) ==
    /\ pc[s] = "live"
    /\ cloned[s] < MaxClones
    /\ strong' = [strong EXCEPT ![s] = @ + 1]
    /\ cloned' = [cloned EXCEPT ![s] = @ + 1]
    /\ UNCHANGED <<owner, rx_open, conn_strong, conn_weak, buffer, buf_lock, queue,
                   pc, client, buf, attempts, borrows, send_result, other_pc,
                   other_sent>>
    /\ UNCHANGED col_vars

\* One holder releases its Statement: the Arc's atomic decrement; the release
\* that was the last one enters StatementInner::drop (line 19).
Release(s) ==
    /\ pc[s] = "live"
    /\ strong[s] >= 1
    /\ strong' = [strong EXCEPT ![s] = @ - 1]
    /\ pc' = [pc EXCEPT ![s] = IF LastReference(strong[s]) THEN "upgrade" ELSE @]
    /\ UNCHANGED <<owner, rx_open, conn_strong, conn_weak, buffer, buf_lock, queue,
                   cloned, client, buf, attempts, borrows, send_result, other_pc,
                   other_sent>>
    /\ UNCHANGED col_vars

\* line 20: if let Some(client) = self.client.upgrade().  On None the body is
\* skipped, drop returns and the fields (the Weak among them) are dropped.
Upgrade(s) ==
    /\ pc[s] = "upgrade"
    /\ client' = [client EXCEPT ![s] = upgrade(conn_strong)]
    /\ IF client'[s] = "Some"
       THEN /\ conn_strong' = conn_strong + 1
            /\ conn_weak' = conn_weak
            /\ pc' = [pc EXCEPT ![s] = "with_buf"]
       ELSE /\ conn_strong' = conn_strong
            /\ conn_weak' = conn_weak - 1
            /\ pc' = [pc EXCEPT ![s] = "done"]
    /\ UNCHANGED <<owner, rx_open, buffer, buf_lock, queue, strong, cloned, buf,
                   attempts, borrows, send_result, other_pc, other_sent>>
    /\ UNCHANGED col_vars

\* line 21: client.with_buf(|buf| ..) takes the buffer's lock.
WithBuf(s) ==
    /\ pc[s] = "with_buf"
    /\ buf_lock = 0
    /\ buf_lock' = s
    /\ borrows' = [borrows EXCEPT ![s] = @ + 1]
    /\ pc' = [pc EXCEPT ![s] = "close"]
    /\ UNCHANGED <<owner, rx_open, conn_strong, conn_weak, buffer, queue, strong,
                   cloned, client, buf, attempts, send_result, other_pc, other_sent>>
    /\ UNCHANGED col_vars

\* line 22
EncodeClose(s) ==
    /\ pc[s] = "close"
    /\ buffer' = CloseStatement(Name(s), buffer)
    /\ pc' = [pc EXCEPT ![s] = "sync"]
    /\ UNCHANGED <<owner, rx_open, conn_strong, conn_weak, buf_lock, queue, strong,
                   cloned, client, buf, attempts, borrows, send_result, other_pc,
                   other_sent>>
    /\ UNCHANGED col_vars

\* line 23
EncodeSync(s) ==
    /\ pc[s] = "sync"
    /\ buffer' = frontend_sync(buffer)
    /\ pc' = [pc EXCEPT ![s] = "split"]
    /\ UNCHANGED <<owner, rx_open, conn_strong, conn_weak, buf_lock, queue, strong,
                   cloned, client, buf, attempts, borrows, send_result, other_pc,
                   other_sent>>
    /\ UNCHANGED col_vars

\* line 24-25: buf.split().freeze() takes everything written; with_buf then
\* clears the buffer and gives the lock back.
SplitFreeze(s) ==
    /\ pc[s] = "split"
    /\ buf' = [buf EXCEPT ![s] = buffer]
    /\ buffer' = <<>>
    /\ buf_lock' = 0
    /\ pc' = [pc EXCEPT ![s] = "send"]
    /\ UNCHANGED <<owner, rx_open, conn_strong, conn_weak, queue, strong, cloned,
                   client, attempts, borrows, send_result, other_pc, other_sent>>
    /\ UNCHANGED col_vars

\* line 26: client.send(RequestMessages::Single(FrontendMessage::Raw(buf))):
\* Ok when the channel takes the message, Err when the receiver is gone.
Send(s) ==
    /\ pc[s] = "send"
    /\ attempts' = [attempts EXCEPT ![s] = @ + 1]
    /\ IF rx_open
       THEN /\ queue' = Append(queue, Single(buf[s]))
            /\ send_result' = [send_result EXCEPT ![s] = "Ok"]
       ELSE /\ queue' = queue
            /\ send_result' = [send_result EXCEPT ![s] = "Err"]
    /\ buf' = [buf EXCEPT ![s] = <<>>]
    /\ pc' = [pc EXCEPT ![s] = DiscardSendResult(send_result'[s])]
    /\ UNCHANGED <<owner, rx_open, conn_strong, conn_weak, buffer, buf_lock, strong,
                   cloned, client, borrows, other_pc, other_sent>>
    /\ UNCHANGED col_vars

\* lines 27-28: the upgraded Arc<InnerClient> goes out of scope, drop returns
\* and the fields of StatementInner (the Weak among them) are dropped.
EndDrop(s) ==
    /\ pc[s] = "end"
    /\ client' = [client EXCEPT ![s] = "Dropped"]
    /\ conn_strong' = conn_strong - 1
    /\ conn_weak' = conn_weak - 1
    /\ pc' = [pc EXCEPT ![s] = "done"]
    /\ UNCHANGED <<owner, rx_open, buffer, buf_lock, queue, strong, cloned, buf,
                   attempts, borrows, send_result, other_pc, other_sent>>
    /\ UNCHANGED col_vars

\* The Client is dropped: the connection's own owner releases its state.
DropClient ==
    /\ owner
    /\ other_pc = "idle"
    /\ owner' = FALSE
    /\ conn_strong' = conn_strong - 1
    /\ UNCHANGED <<rx_open, conn_weak, buffer, buf_lock, queue, pc, strong, cloned,
                   client, buf, attempts, borrows, send_result, other_pc, other_sent>>
    /\ UNCHANGED col_vars

\* The Connection ends: the receiving half of the channel is gone.
CloseConnection ==
    /\ rx_open
    /\ rx_open' = FALSE
    /\ UNCHANGED <<owner, conn_strong, conn_weak, buffer, buf_lock, queue, pc, strong,
                   cloned, client, buf, attempts, borrows, send_result, other_pc,
                   other_sent>>
    /\ UNCHANGED col_vars

\* Another request of the client encodes its frame under the buffer's lock ...
OtherEncode ==
    /\ owner
    /\ other_pc = "idle"
    /\ other_sent < MaxOther
    /\ buf_lock = 0
    /\ buf_lock' = -1
    /\ buffer' = Append(buffer, <<"Query">>)
    /\ other_pc' = "encoded"
    /\ UNCHANGED <<owner, rx_open, conn_strong, conn_weak, queue, pc, strong, cloned,
                   client, buf, attempts, borrows, send_result, other_sent>>
    /\ UNCHANGED col_vars

\* ... and takes it out of the buffer and sends it.
OtherSend ==
    /\ other_pc = "encoded"
    /\ queue' = IF rx_open THEN Append(queue, Single(buffer)) ELSE queue
    /\ buffer' = <<>>
    /\ buf_lock' = 0
    /\ other_pc' = "idle"
    /\ other_sent' = other_sent + 1
    /\ UNCHANGED <<owner, rx_open, conn_strong, conn_weak, pc, strong, cloned,
                   client, buf, attempts, borrows, send_result>>
    /\ UNCHANGED col_vars

StmtInit ==
    /\ owner = TRUE
    /\ rx_open = TRUE
    /\ conn_strong = 1
    /\ conn_weak = 0
    /\ buffer = <<>>
    /\ buf_lock = 0
    /\ queue = <<>>
    /\ pc = [s \in Statements |-> "absent"]
    /\ strong = [s \in Statements |-> 0]
    /\ cloned = [s \in Statements |-> 0]
    /\ client = [s \in Statements |-> "Unset"]
    /\ buf = [s \in Statements |-> <<>>]
    /\ attempts = [s \in Statements |-> 0]
    /\ borrows = [s \in Statements |-> 0]
    /\ send_result = [s \in Statements |-> "None"]
    /\ other_pc = "idle"
    /\ other_sent = 0

ColIdle ==
    /\ col_type = "TEXT"
    /\ col_mod = -1
    /\ checks = FALSE
    /\ col_pc = "new"
    /\ result = <<"None">>
    /\ overflowed = FALSE

Init == StmtInit /\ ColIdle

Next ==
    \/ \E s \in Statements : New(s)
    \/ \E s \in Statements : Clone(s)
    \/ \E s \in Statements : Release(s)
    \/ \E s \in Statements : Upgrade(s)
    \/ \E s \in Statements : WithBuf(s)
    \/ \E s \in Statements : EncodeClose(s)
    \/ \E s \in Statements : EncodeSync(s)
    \/ \E s \in Statements : SplitFreeze(s)
    \/ \E s \in Statements : Send(s)
    \/ \E s \in Statements : EndDrop(s)
    \/ DropClient
    \/ CloseConnection
    \/ OtherEncode
    \/ OtherSend

Spec == Init /\ [][Next]_vars

\* ------------------------------------------------------------------------
\* Part 2: Column::precision and Column::scale
\* ------------------------------------------------------------------------

\* i32 (line 71: type_modifier: i32)
MaxI32 == 2147483647
MinI32 == -MaxI32 - 1

\* A u32 is written <<high 16 bits, low 16 bits>>.
Half == 65536

\* `x as u32` for an i32 x: the same 32 bits, read unsigned.
AsU32(x) ==
    IF x >= 0 THEN <<x \div Half, x % Half>>
    ELSE <<32768 + ((x - MinI32) \div Half), (x - MinI32) % Half>>

\* The i32 with the bits of u32 u.
AsI32(u) == IF u[1] >= 32768 THEN (u[1] - Half) * Half + u[2] ELSE u[1] * Half + u[2]

RECURSIVE And16(_, _, _)
And16(a, b, n) ==
    IF n = 0 THEN 0
    ELSE (a % 2) * (b % 2) + 2 * And16(a \div 2, b \div 2, n - 1)

\* a & b on i32: bitwise on the two's complement bits.
BitAnd(a, b) ==
    AsI32(<<And16(AsU32(a)[1], AsU32(b)[1], 16), And16(AsU32(a)[2], AsU32(b)[2], 16)>>)

\* x >> 16 on i32: arithmetic, sign-propagating shift.
Shr16(x) == x \div Half

\* a + b on i32: v is the wrapped sum, ovf tells the sum left the i32 range.
I32Add(a, b) ==
    IF b >= 0
    THEN IF a > MaxI32 - b
         THEN [v |-> MinI32 + (a - (MaxI32 - b) - 1), ovf |-> TRUE]
         ELSE [v |-> a + b, ovf |-> FALSE]
    ELSE IF a < MinI32 - b
         THEN [v |-> MaxI32 - ((MinI32 - b) - a - 1), ovf |-> TRUE]
         ELSE [v |-> a + b, ovf |-> FALSE]

\* a + b where a is itself the outcome of i32 arithmetic.
Plus(a, b) == [v |-> I32Add(a.v, b).v, ovf |-> a.ovf \/ I32Add(a.v, b).ovf]

\* a - b on i32, b a small positive literal.
Minus(a, b) == I32Add(a, 0 - b)

\* 0xFFFF0000 as an i32 literal under #[allow(overflowing_literals)] (lines 90, 111)
Mask_FFFF0000 == -65536
\* 0xFFFF (lines 171, 185)
Mask_FFFF == 65535

None == <<"None">>
Some(u) == <<"Some", u>>
Panic == <<"Panic">>

\* A call's outcome: the value returned and whether its arithmetic overflowed.
\* With overflow checks on, an overflowing operation aborts the call.
Ret(res) == [res |-> res, ovf |-> FALSE]
RetArith(chk, a, res) ==
    [res |-> IF chk /\ a.ovf THEN Panic ELSE res, ovf |-> a.ovf]

\* Column::type_modifier_to_second_size (lines 192-200)
type_modifier_to_second_size(type_modifier) ==
    CASE type_modifier = -1 -> [v |-> 7, ovf |-> FALSE]
      [] type_modifier = 0 -> [v |-> 0, ovf |-> FALSE]
      [] type_modifier = 1 -> [v |-> 3, ovf |-> FALSE]
      [] OTHER -> I32Add(type_modifier, 1)

\* lines 107-113
precision_numeric(m, chk) ==
    IF m = -1 THEN Ret(None)
    ELSE RetArith(chk, Minus(m, 4),
                  Some(AsU32(Shr16(BitAnd(Minus(m, 4).v, Mask_FFFF0000)))))

\* lines 118-124
precision_char(m, chk) ==
    IF m = -1 THEN Ret(None)
    ELSE RetArith(chk, Minus(m, 4), Some(AsU32(Minus(m, 4).v)))

\* lines 133-148: base + second_size (+ zone), added left to right.
precision_time(base, zone, m, chk) ==
    LET second_size == type_modifier_to_second_size(m)
        sum == IF zone = 0 THEN Plus([v |-> base, ovf |-> second_size.ovf], second_size.v)
               ELSE Plus(Plus([v |-> base, ovf |-> second_size.ovf], second_size.v), zone)
    IN  RetArith(chk, sum, Some(AsU32(sum.v)))

\* Column::precision (lines 91-160)
precision(type_, m, chk) ==
    CASE type_ = "INT2" -> Ret(Some(AsU32(5)))
      [] type_ = "OID" -> Ret(Some(AsU32(10)))
      [] type_ = "INT4" -> Ret(Some(AsU32(10)))
      [] type_ = "INT8" -> Ret(Some(AsU32(19)))
      [] type_ = "FLOAT4" -> Ret(Some(AsU32(8)))
      [] type_ = "FLOAT8" -> Ret(Some(AsU32(17)))
      [] type_ = "NUMERIC" -> precision_numeric(m, chk)
      [] type_ = "CHAR" -> Ret(Some(AsU32(1)))
      [] type_ = "BOOL" -> Ret(Some(AsU32(1)))
      [] type_ \in {"BPCHAR", "VARCHAR"} -> precision_char(m, chk)
      [] type_ = "DATE" -> Ret(Some(AsU32(13)))
      [] type_ = "TIME" -> precision_time(8, 0, m, chk)
      [] type_ = "TIMETZ" -> precision_time(8, 6, m, chk)
      [] type_ = "TIMESTAMP" -> precision_time(13 + 1 + 8, 0, m, chk)
      [] type_ = "TIMESTAMPTZ" -> precision_time(13 + 1 + 8, 4, m, chk)
      [] type_ = "INTERVAL" -> Ret(Some(AsU32(49)))
      [] type_ = "BIT" -> Ret(Some(AsU32(m)))
      [] type_ = "VARBIT" -> IF m = -1 THEN Ret(None) ELSE Ret(Some(AsU32(m)))
      [] OTHER -> Ret(None)

\* lines 167-173
scale_numeric(m, chk) ==
    IF m = -1 THEN Ret(Some(AsU32(0)))
    ELSE RetArith(chk, Minus(m, 4), Some(AsU32(BitAnd(Minus(m, 4).v, Mask_FFFF))))

\* lines 174-180
scale_time(m) == IF m = -1 THEN Some(AsU32(6)) ELSE Some(AsU32(m))

scale_interval_unmasked(m) == IF m = -1 THEN Some(AsU32(6)) ELSE Some(AsU32(m))
\* lines 181-187
scale_interval(m) == IF m = -1 THEN Some(AsU32(6)) ELSE Some(AsU32(BitAnd(m, Mask_FFFF)))

\* Column::scale (lines 163-190)
scale(type_, m, chk) ==
    CASE type_ = "FLOAT4" -> Ret(Some(AsU32(8)))
      [] type_ = "FLOAT8" -> Ret(Some(AsU32(17)))
      [] type_ = "NUMERIC" -> scale_numeric(m, chk)
      [] type_ \in {"TIME", "TIMETZ", "TIMESTAMP", "TIMESTAMPTZ"} -> Ret(scale_time(m))
      [] type_ = "INTERVAL" -> Ret(scale_interval(m))
      [] OTHER -> Ret(None)

\* The types of the catalog the two accessors name, and two they do not.
Types ==
    {"INT2", "OID", "INT4", "INT8", "FLOAT4", "FLOAT8", "NUMERIC", "CHAR", "BOOL",
     "BPCHAR", "VARCHAR", "DATE", "TIME", "TIMETZ", "TIMESTAMP", "TIMESTAMPTZ",
     "INTERVAL", "BIT", "VARBIT", "TEXT", "JSON"}

\* The modifiers enumerated: both ends of i32, the sentinel -1 and its
\* neighbours, the edges of the 16-bit fields, and packed NUMERIC modifiers.
Modifiers ==
    (MinI32..(MinI32 + 4 + EdgeWidth))
    \cup {MaxI32 - k : k \in 0..(26 + EdgeWidth)}
    \cup ((-Half - 4 - EdgeWidth)..(-Half + 4 + EdgeWidth))
    \cup ((-4 - EdgeWidth)..(4 + EdgeWidth))
    \cup {24}
    \cup ((Half - EdgeWidth)..(Half + 4 + EdgeWidth))
    \cup {4 + p * Half + s : p \in {1, 10, 1000, 32767}, s \in 0..EdgeWidth}

\* Column::new (lines 75-77) with any type and any modifier of the protocol.
ColInit ==
    /\ col_type \in Types
    /\ col_mod \in Modifiers
    /\ checks \in BOOLEAN
    /\ col_pc = "new"
    /\ result = None
    /\ overflowed = FALSE

CallPrecision ==
    /\ col_pc' = "precision"
    /\ result' = precision(col_type, col_mod, checks).res
    /\ overflowed' = precision(col_type, col_mod, checks).ovf
    /\ UNCHANGED <<col_type, col_mod, checks>>
    /\ UNCHANGED stmt_vars

CallScale ==
    /\ col_pc' = "scale"
    /\ result' = scale(col_type, col_mod, checks).res
    /\ overflowed' = scale(col_type, col_mod, checks).ovf
    /\ UNCHANGED <<col_type, col_mod, checks>>
    /\ UNCHANGED stmt_vars

ColNext == CallPrecision \/ CallScale

ColumnInit == StmtInit /\ ColInit

ColumnSpec == ColumnInit /\ [][ColNext]_vars

\* ------------------------------------------------------------------------
\* Properties of Part 1, checked under Spec
\* ------------------------------------------------------------------------

\* The one message a cleanup of s may submit.
CleanupMsg(s) == Single(<<<<"Close", "S", Name(s)>>, <<"Sync">>>>)

\* msg holds a Close frame naming statement s.
NamesStatement(msg, s) ==
    \E j \in DOMAIN msg.raw :
        /\ Len(msg.raw[j]) = 3
        /\ msg.raw[j][1] = "Close"
        /\ msg.raw[j][3] = Name(s)

Queued(s) == {i \in DOMAIN queue : NamesStatement(queue[i], s)}

InCleanup(s) == pc[s] \in {"with_buf", "close", "sync", "split", "send", "end"}

\* C1: while a reference to a statement is held nothing is submitted for it;
\* the release of the last reference, with the connection alive, makes
\* exactly one submission, the Close+Sync message naming the statement; no
\* statement ever has more than one submission, however many clones were
\* taken and released.
C1_ExactlyOneCleanup ==
    \A s \in Statements :
        /\ attempts[s] <= 1
        /\ Cardinality(Queued(s)) <= attempts[s]
        /\ strong[s] > 0 => (attempts[s] = 0 /\ pc[s] = "live")
        /\ (pc[s] = "done" /\ owner) => attempts[s] = 1
        /\ (pc[s] = "done" /\ owner /\ rx_open) =>
               /\ Cardinality(Queued(s)) = 1
               /\ \A i \in Queued(s) : queue[i] = CleanupMsg(s)

C1_Witness ==
    \E s \in Statements :
        /\ cloned[s] >= 1
        /\ strong[s] = 0
        /\ pc[s] = "done"
        /\ owner /\ rx_open
        /\ attempts[s] = 1
        /\ \E i \in DOMAIN queue : queue[i] = CleanupMsg(s)

\* C2: once the connection's state is gone it stays gone, and the cleanup of
\* a statement whose last reference goes after that resolves nothing: it
\* goes straight to its end, takes no buffer, submits nothing and surfaces
\* no error.
C2_GoneConnectionNoCleanup ==
    /\ [](\A s \in Statements :
            client[s] = "None" =>
                /\ pc[s] = "done"
                /\ attempts[s] = 0
                /\ borrows[s] = 0
                /\ send_result[s] = "None"
                /\ Queued(s) = {})
    /\ [][conn_strong = 0 => conn_strong' = 0]_vars
    /\ [][\A s \in Statements :
            (pc[s] = "upgrade" /\ conn_strong = 0 /\ pc'[s] # "upgrade") =>
                /\ client'[s] = "None"
                /\ pc'[s] = "done"
                /\ queue' = queue
                /\ buffer' = buffer
                /\ buf_lock' = buf_lock
                /\ attempts' = attempts
                /\ borrows' = borrows]_vars

C2_Witness ==
    \E s \in Statements :
        /\ cloned[s] >= 1
        /\ pc[s] = "done"
        /\ client[s] = "None"
        /\ conn_strong = 0
        /\ attempts[s] = 0

\* C3: every message handed to the connection by a cleanup is exactly
\* <<Close('S', name), Sync>>: what a cleanup is about to send, and every
\* queued message that is not another request, is that pair of frames, and
\* while a cleanup writes, the buffer holds its frames and nothing else.
C3_CloseThenSync ==
    /\ \A i \in DOMAIN queue :
          /\ queue[i].kind = "Single"
          /\ \/ queue[i].raw = <<<<"Query">>>>
             \/ \E s \in Statements : queue[i] = CleanupMsg(s)
    /\ \A s \in Statements :
          /\ pc[s] = "send" => Single(buf[s]) = CleanupMsg(s)
          /\ pc[s] = "close" => buffer = <<>>
          /\ pc[s] = "sync" => buffer = <<<<"Close", "S", Name(s)>>>>
          /\ pc[s] = "split" => Single(buffer) = CleanupMsg(s)

C3_Witness ==
    \E i, j, k \in DOMAIN queue :
        \E s, t \in Statements :
            /\ s # t
            /\ queue[i] = CleanupMsg(s)
            /\ queue[j] = CleanupMsg(t)
            /\ queue[k].raw = <<<<"Query">>>>

\* C4: a failed submission is the only one made: the cleanup goes on to its
\* normal end with the error dropped, the send is not repeated, and the step
\* that fails changes neither the buffer, its lock, the queue nor any
\* reference count.
C4_SendFailureAbsorbed ==
    /\ [](\A s \in Statements :
            /\ pc[s] # "panicked"
            /\ send_result[s] = "Err" =>
                  (attempts[s] = 1 /\ pc[s] \in {"end", "done"} /\ Queued(s) = {}))
    /\ [][\A s \in Statements :
            (pc[s] = "send" /\ pc'[s] # "send" /\ ~rx_open) =>
                /\ pc'[s] = "end"
                /\ send_result'[s] = "Err"
                /\ attempts'[s] = 1
                /\ buffer' = buffer
                /\ buf_lock' = buf_lock
                /\ queue' = queue
                /\ strong' = strong
                /\ conn_strong' = conn_strong
                /\ conn_weak' = conn_weak]_vars

C4_Witness ==
    \E s \in Statements :
        /\ send_result[s] = "Err"
        /\ attempts[s] = 1
        /\ pc[s] = "done"

\* C5 as claimed: in every state the connection's state is owned by the
\* connection's own owner alone, so it is gone as soon as the owner lets go.
C5_SoleOwnerAlways ==
    /\ conn_strong = (IF owner THEN 1 ELSE 0)
    /\ \A s \in Statements : client[s] # "Some"

\* C5 as amended: a handle that is held, or whose cleanup has ended, owns
\* nothing of the connection; the only other owners are the cleanups between
\* their successful upgrade and their return, one strong reference each; so
\* with the owner gone the state is gone once no such cleanup is running.
C5_OnlyRunningCleanupOwns ==
    /\ conn_strong =
          (IF owner THEN 1 ELSE 0) + Cardinality({s \in Statements : client[s] = "Some"})
    /\ \A s \in Statements : client[s] = "Some" <=> InCleanup(s)
    /\ (~owner /\ \A s \in Statements : ~InCleanup(s)) => conn_strong = 0
    /\ conn_weak = Cardinality({s \in Statements : pc[s] \notin {"absent", "done"}})

C5_Witness ==
    \E s \in Statements :
        /\ ~owner
        /\ InCleanup(s)
        /\ conn_strong = 1
        /\ \E t \in Statements : pc[t] = "done" /\ client[t] = "Dropped"

\* ------------------------------------------------------------------------
\* Properties of Part 2, checked under ColumnSpec
\* ------------------------------------------------------------------------

\* The bits of the integer m - 4, as a u32, computed on the halves of m.
BitsOfMinus4(m) ==
    <<((m \div Half) - (IF m % Half < 4 THEN 1 ELSE 0)) % Half, ((m % Half) + Half - 4) % Half>>

\* The u32 that is m + k modulo 2^32, for 0 <= k.
U32OfSum(m, k) ==
    IF m <= MaxI32 - k THEN AsU32(m + k)
    ELSE <<32768 + ((m - (MaxI32 - k) - 1) \div Half), (m - (MaxI32 - k) - 1) % Half>>

\* C6: NUMERIC: modifier -1 gives precision None and scale Some(0); any
\* other modifier gives precision Some(bits 16..31 of modifier - 4) and
\* scale Some(bits 0..15 of modifier - 4), both as unsigned 16-bit fields.
C6_NumericDecodesFields ==
    col_type = "NUMERIC" =>
        /\ col_pc = "precision" =>
              result = (IF col_mod = -1 THEN None
                        ELSE Some(<<0, BitsOfMinus4(col_mod)[1]>>))
        /\ col_pc = "scale" =>
              result = (IF col_mod = -1 THEN Some(<<0, 0>>)
                        ELSE Some(<<0, BitsOfMinus4(col_mod)[2]>>))

\* The fractional-second width plus base, as an offset from the modifier.
TimeBase(type_) ==
    CASE type_ = "TIME" -> 8
      [] type_ = "TIMETZ" -> 8 + 6
      [] type_ = "TIMESTAMP" -> 13 + 1 + 8
      [] type_ = "TIMESTAMPTZ" -> 13 + 1 + 8 + 4

TimeFamily == {"TIME", "TIMETZ", "TIMESTAMP", "TIMESTAMPTZ"}

\* C7: for the time family precision() is Some(base + width), width being 7
\* for modifier -1, 0 for 0, 3 for 1 and modifier + 1 otherwise.
C7_TimePrecision ==
    (col_type \in TimeFamily /\ col_pc = "precision") =>
        result = (CASE col_mod = -1 -> Some(AsU32(TimeBase(col_type) + 7))
                    [] col_mod = 0 -> Some(AsU32(TimeBase(col_type)))
                    [] col_mod = 1 -> Some(AsU32(TimeBase(col_type) + 3))
                    [] OTHER -> Some(U32OfSum(col_mod, TimeBase(col_type) + 1)))

\* C8: scale(): the time family gives Some(6) for modifier -1 and otherwise
\* the modifier's own bits; INTERVAL gives Some(6) for -1 and otherwise the
\* modifier's low 16 bits; FLOAT4 and FLOAT8 give 8 and 17, their precision;
\* every type outside the eight gives None; and no call overflows.
C8_ScaleOfTimeAndOthers ==
    (col_pc = "scale" /\ col_type # "NUMERIC") =>
        /\ ~overflowed
        /\ col_type \in TimeFamily =>
              IF col_mod = -1 THEN result = Some(<<0, 6>>)
              ELSE result[1] = "Some" /\ AsI32(result[2]) = col_mod
        /\ col_type = "INTERVAL" =>
              IF col_mod = -1 THEN result = Some(<<0, 6>>)
              ELSE result = Some(<<0, col_mod % Half>>)
        /\ col_type = "FLOAT4" =>
              result = Some(<<0, 8>>) /\ result = precision(col_type, col_mod, checks).res
        /\ col_type = "FLOAT8" =>
              result = Some(<<0, 17>>) /\ result = precision(col_type, col_mod, checks).res
        /\ col_type \notin (TimeFamily \cup {"INTERVAL", "FLOAT4", "FLOAT8"}) =>
              result = None

C8_Witness ==
    /\ col_pc = "scale"
    /\ col_type = "INTERVAL"
    /\ col_mod = 5 - Half
    /\ result = Some(<<0, 5>>)

\* C9: precision() of length-typed columns: BPCHAR and VARCHAR give None for
\* modifier -1 and otherwise Some(modifier - 4); BIT gives Some(modifier) as
\* unsigned for every modifier; VARBIT gives None for -1 and otherwise
\* Some(modifier); CHAR and BOOL give Some(1).
C9_LengthPrecision ==
    col_pc = "precision" =>
        /\ col_type \in {"BPCHAR", "VARCHAR"} =>
              result = (IF col_mod = -1 THEN None ELSE Some(BitsOfMinus4(col_mod)))
        /\ col_type = "BIT" => (result[1] = "Some" /\ AsI32(result[2]) = col_mod)
        /\ col_type = "VARBIT" =>
              IF col_mod = -1 THEN result = None
              ELSE result[1] = "Some" /\ AsI32(result[2]) = col_mod
        /\ col_type \in {"CHAR", "BOOL"} => result = Some(<<0, 1>>)

\* C10: every call of precision() or scale() returns None or Some(u32), and
\* none of its i32 computations leaves the i32 range.
C10_TotalNoOverflow ==
    col_pc # "new" =>
        /\ result # Panic
        /\ ~overflowed
        /\ result = None \/ (result[1] = "Some" /\ result[2] \in (0..(Half - 1)) \X (0..(Half - 1)))

====
